---------------------------- MODULE Spec2Model ----------------------------
(***************************************************************************)
(* Model of the "error" node of the camera drone (src/src/error_ros.cpp):  *)
(* main, autonomy, increase_altitude, PID_controller, move_drone and the   *)
(* SIGINT handler.                                                         *)
(*                                                                         *)
(* Numbers.  The program computes in IEEE float/double.  A number is       *)
(* modelled as an extended rational <<n, d>> with d >= 0:                  *)
(*     d > 0          the finite value n/d, in lowest terms                *)
(*     <<1, 0>>       +infinity        <<-1, 0>>   -infinity               *)
(*     <<0, 0>>       NaN                                                  *)
(* with the IEEE rules for the special values (x/0, inf-inf, 0*inf, every  *)
(* comparison with NaN false).  Rounding and the sign of zero are not      *)
(* modelled.                                                               *)
(***************************************************************************)
EXTENDS Integers, Sequences, FiniteSets, TLC

(***************************************************************************)
(* Bounds of the model.                                                    *)
(***************************************************************************)
\* number of ErrorSignal messages the environment publishes on image_data
MaxImages == 2
\* number of ErrorSignal messages waiting in the subscription queue at a time
\* (the queue itself holds 100)
MaxPending == 1
\* number of Navdata messages the environment publishes on /ardrone/navdata
MaxNavdata == 2

\* compute_output calls made on a controller driven on its own
MaxCalls == 7

(***************************************************************************)
(* Extended rational arithmetic.                                           *)
(***************************************************************************)
Abs(n) == IF n < 0 THEN -n ELSE n

Sgn(n) == IF n > 0 THEN 1 ELSE IF n < 0 THEN -1 ELSE 0

RECURSIVE GCD(_, _)
GCD(a, b) == IF b = 0 THEN a ELSE GCD(b, a % b)

\* <<n, d>> brought to the canonical form described above
Norm(n, d) ==
    IF d = 0 THEN <<Sgn(n), 0>>
    ELSE LET s == IF d < 0 THEN -1 ELSE 1
             g == GCD(Abs(n), Abs(d))
         IN  <<(s * n) \div g, (s * d) \div g>>

R(n) == <<n, 1>>
Frac(n, d) == Norm(n, d)
NaN == <<0, 0>>
IsNaN(x) == x = NaN
IsInf(x) == x[2] = 0 /\ x[1] # 0
IsFinite(x) == x[2] > 0

RNeg(x) == <<-x[1], x[2]>>

RAdd(x, y) ==
    IF IsNaN(x) \/ IsNaN(y) THEN NaN
    ELSE IF IsInf(x) /\ IsInf(y) THEN (IF x = y THEN x ELSE NaN)
    ELSE IF IsInf(x) THEN x
    ELSE IF IsInf(y) THEN y
    ELSE Norm(x[1] * y[2] + y[1] * x[2], x[2] * y[2])

RSub(x, y) == RAdd(x, RNeg(y))

RMul(x, y) == Norm(x[1] * y[1], x[2] * y[2])

RDiv(x, y) ==
    LET sy == IF y[1] < 0 THEN -1 ELSE 1
    IN  Norm(x[1] * y[2] * sy, x[2] * y[1] * sy)

\* x < y and x > y as the float comparison: false when either is NaN
RLt(x, y) ==
    IF IsNaN(x) \/ IsNaN(y) THEN FALSE
    ELSE IF IsInf(x) /\ IsInf(y) THEN x[1] < y[1]
    ELSE x[1] * y[2] < y[1] * x[2]

RGt(x, y) == RLt(y, x)

RLe(x, y) == (~IsNaN(x)) /\ (~IsNaN(y)) /\ ~RLt(y, x)

(***************************************************************************)
(* PID_controller                                                          *)
(***************************************************************************)
Controllers == {"velocity_PI", "yaw_PI", "alt_PI"}

\* PID_controller::PID_controller
PID_controller(SP_in, slew_rate_in, outMax_in, outMin_in, kp_in, ki_in, kd_in, offset_in) ==
    [ time_stamp_prev  |-> R(0),
      integral         |-> R(0),
      kp               |-> kp_in,
      ki               |-> ki_in,
      kd               |-> kd_in,
      SP               |-> SP_in,
      outMax           |-> outMax_in,
      outMin           |-> outMin_in,
      prev_error       |-> [i \in 0..2 |-> R(0)],
      output_slew_rate |-> slew_rate_in,
      prev_output      |-> R(0),
      offset           |-> offset_in ]

\* the error of a call: error = SP - PV
Error(p, PV) == RSub(p.SP, PV)

\* the derivative term of a call made at time_stamp_curr
Derivative(p, PV, time_stamp_curr) ==
    LET dt    == RSub(time_stamp_curr, p.time_stamp_prev)
        error == Error(p, PV)
    IN  RDiv(RDiv(RSub(RSub(RAdd(error, RMul(R(3), p.prev_error[2])),
                            RMul(R(3), p.prev_error[1])),
                       p.prev_error[0]),
                  R(6)),
             dt)

\* the value of output if there were no deadband test
RawOutputNoDeadband(p, error, integral, derivative) ==
    RAdd(RAdd(RMul(p.kp, error), RMul(p.ki, integral)), RMul(p.kd, derivative))

\* the value of output before the slew-rate limit: the deadband test
RawOutput(p, error, integral, derivative) ==
    IF RGt(error, p.offset) \/ RLt(error, RMul(p.offset, R(-1)))
    THEN RAdd(RAdd(RMul(p.kp, error), RMul(p.ki, integral)), RMul(p.kd, derivative))
    ELSE R(0)

\* "output slew rate"
SlewLimit(p, output) ==
    IF RGt(RSub(output, p.prev_output), p.output_slew_rate)
    THEN RAdd(p.prev_output, p.output_slew_rate)
    ELSE IF RLt(RSub(output, p.prev_output), RNeg(p.output_slew_rate))
    THEN RSub(p.prev_output, p.output_slew_rate)
    ELSE output

\* "cap output"
CapOutput(p, output) ==
    IF RGt(output, p.outMax) THEN p.outMax
    ELSE IF RLt(output, p.outMin) THEN p.outMin
    ELSE output

\* the history update of compute_output, in the order the code assigns:
\* prev_error[1] = prev_error[0]; prev_error[2] = prev_error[1]; prev_error[0] = error
ShiftErrors(prev_error, error) ==
    LET s1 == [prev_error EXCEPT ![1] = prev_error[0]]
        s2 == [s1 EXCEPT ![2] = s1[1]]
    IN  [s2 EXCEPT ![0] = error]

\* an integral term that is only accumulated outside the deadband
IntegrateOutsideDeadband(p, error, dt) ==
    IF RGt(error, p.offset) \/ RLt(error, RMul(p.offset, R(-1)))
    THEN RAdd(p.integral, RMul(error, dt))
    ELSE p.integral

\* "integral term": integral += error * dt
Integrate(p, error, dt) == RAdd(p.integral, RMul(error, dt))

\* PID_controller::compute_output: the controller after the call made with
\* process value PV when ros::Time::now() is time_stamp_curr; the value the
\* call returns is the prev_output of the result
compute_output(p, PV, time_stamp_curr) ==
    LET dt         == RSub(time_stamp_curr, p.time_stamp_prev)
        error      == Error(p, PV)
        integral   == Integrate(p, error, dt)
        derivative == Derivative(p, PV, time_stamp_curr)
        output     == CapOutput(p, SlewLimit(p, RawOutput(p, error, integral, derivative)))
    IN  [p EXCEPT !.integral        = integral,
                  !.time_stamp_prev = time_stamp_curr,
                  !.prev_output     = output,
                  !.prev_error      = ShiftErrors(p.prev_error, error)]

(***************************************************************************)
(* Program constants and messages                                          *)
(***************************************************************************)
\* autonomy drone(1300, ...): the cruise altitude handed to increase_altitude
takeoff_altitude == 1300

Topics == {"/ardrone/takeoff", "cmd_vel", "ready", "/ardrone/land"}

\* the latch argument of each advertise call (absent = false)
Latch == [t \in Topics |->
            CASE t = "/ardrone/takeoff" -> TRUE
              [] t = "cmd_vel"          -> FALSE
              [] t = "ready"            -> FALSE
              [] t = "/ardrone/land"    -> TRUE]

\* messages are records, so that any two of them can be compared
NoMsg == [none |-> TRUE]
empty_msg == [empty |-> TRUE]
ready_sig == [data |-> TRUE]

\* move_drone with the vertical velocity and the yaw speed exchanged
move_drone_swapped(velocity_x, velocity_z, yaw_speed) ==
    [ linear  |-> [x |-> velocity_x, y |-> R(0), z |-> yaw_speed],
      angular |-> [x |-> R(0), y |-> R(0), z |-> velocity_z] ]

\* move_drone: the Twist message it builds from its three arguments
move_drone(velocity_x, velocity_z, yaw_speed) ==
    [ linear  |-> [x |-> velocity_x, y |-> R(0), z |-> velocity_z],
      angular |-> [x |-> R(0), y |-> R(0), z |-> yaw_speed] ]

\* the tuning parameters argv[1..12] are free: the controllers get one of
\* these {kp, ki, kd, offset} sets
Tunings ==
    { [kp |-> Frac(1, 100), ki |-> R(0),         kd |-> R(0),         offset |-> R(60)],
      [kp |-> Frac(1, 100), ki |-> Frac(1, 1000), kd |-> Frac(1, 100), offset |-> R(0)] }

\* the three controllers as main constructs them from a choice of tunings
MainControllers(tune) ==
    [c \in Controllers |->
        CASE c = "alt_PI" ->
                PID_controller(R(0), Frac(1, 2), Frac(2, 5), Frac(-2, 5),
                               tune[c].kp, tune[c].ki, tune[c].kd, tune[c].offset)
          [] c = "velocity_PI" ->
                PID_controller(R(250), Frac(1, 5), Frac(3, 10), Frac(-3, 10),
                               tune[c].kp, tune[c].ki, tune[c].kd, tune[c].offset)
          [] c = "yaw_PI" ->
                PID_controller(R(0), Frac(1, 5), Frac(1, 2), Frac(-1, 2),
                               tune[c].kp, tune[c].ki, tune[c].kd, tune[c].offset)]

\* ErrorSignal messages the vision node may publish on image_data
ImageMsgs ==
    { [distance |-> R(300), yaw |-> R(0),  height |-> R(0)],
      [distance |-> R(100), yaw |-> R(80), height |-> R(-90)] }

\* altitudes (msg->altd) the drone may report on /ardrone/navdata
Altitudes == {700, 1300}

\* clock values (seconds) ros::Time::now() may return; the clock is absolute,
\* it does not start at 0
Timestamps == {2, 3}

\* the clock value when the node starts
StartTime == CHOOSE t \in Timestamps : \A u \in Timestamps : t <= u

\* values a reading of ros::Time::now() may return after the reading t: the
\* clock does not run backwards, and it need not have advanced
ClockReadings(t) == {u \in Timestamps : u >= t}

(***************************************************************************)
(* State                                                                   *)
(***************************************************************************)
VARIABLES
    pc,                \* position of main's control flow
    hpc,               \* position of sigint_handler
    sigThread,         \* thread SIGINT was delivered to: "none", "main", "other"
    ok,                \* ros::ok(): FALSE once ros::shutdown() has run
    pid,               \* the three PID_controller members of autonomy
    now,               \* last value read from ros::Time::now()
    current_altitude,  \* increase_altitude::current_altitude
    navSub,            \* navdata_altitude is subscribed
    navQueue,          \* its pending messages (queue size 1)
    imgSub,            \* image_pro is subscribed
    imgQueue,          \* its pending messages
    image,             \* the message autonomy::callback is running on
    x_velocity, yaw_speed, z_velocity,  \* locals of autonomy::callback
    out,               \* outbound events, in order: what was published or called
    retained,          \* per topic, the message a latched publisher keeps
    nNav, nImg,        \* messages the environment has published so far
    nCb,               \* ErrorSignals handed to autonomy::callback so far
    last_call,         \* the latest compute_output call: controller, arguments,
                       \* previous output and returned value
    sigAt,             \* lifecycle phase main was in when SIGINT arrived
    calls,             \* every compute_output call made so far, in order
    main_pid           \* altitude_PI, velocity_PI and yaw_PI, the objects of main

vars == <<pc, hpc, sigThread, ok, pid, now, current_altitude, navSub, navQueue,
          imgSub, imgQueue, image, x_velocity, yaw_speed, z_velocity, out,
          retained, nNav, nImg, nCb, last_call, sigAt, calls, main_pid>>

mainVars == <<pc, pid, now, current_altitude, image, x_velocity, yaw_speed,
              z_velocity, nCb, last_call, calls, main_pid>>

\* what last_call holds for a call on controller c
CallRecord(c, PV, time_stamp_curr) ==
    LET after == compute_output(pid[c], PV, time_stamp_curr)
    IN  [ controller |-> c, PV |-> PV, time |-> time_stamp_curr,
          dt          |-> RSub(time_stamp_curr, pid[c].time_stamp_prev),
          error       |-> Error(pid[c], PV),
          derivative  |-> Derivative(pid[c], PV, time_stamp_curr),
          integral    |-> after.integral,
          prev_output |-> pid[c].prev_output,
          output      |-> after.prev_output ]

NoCall == [none |-> TRUE]

\* autonomy holds velocity_PI, yaw_PI and alt_PI by value: a call on member c
\* that leaves it as p changes that member and no other
MemberAfterCall(c, p) == [pid EXCEPT ![c] = p]

\* the objects of main if autonomy held references to them
MainAfterCallAliased(c, p) == [main_pid EXCEPT ![c] = p]

\* the autonomy constructor copies its arguments into the members, so a call
\* on a member leaves the objects of main as they are
MainAfterCall(c, p) == main_pid

Init ==
    /\ pc = "flattrim"
    /\ hpc = "idle"
    /\ sigThread = "none"
    /\ ok = TRUE
    /\ \E tune \in Tunings : pid = MainControllers([c \in Controllers |-> tune])
    /\ now = StartTime
    /\ current_altitude = 0
    /\ navSub = FALSE
    /\ navQueue = <<>>
    /\ imgSub = FALSE
    /\ imgQueue = <<>>
    /\ image = NoMsg
    /\ x_velocity = R(0)
    /\ yaw_speed = R(0)
    /\ z_velocity = R(0)
    /\ out = <<>>
    /\ retained = [t \in Topics |-> NoMsg]
    /\ nNav = 0
    /\ nImg = 0
    /\ nCb = 0
    /\ last_call = NoCall
    /\ sigAt = "none"
    /\ calls = <<>>
    /\ main_pid = pid

(***************************************************************************)
(* roscpp primitives the program uses                                      *)
(***************************************************************************)
\* Publisher::publish: the message goes out, and a latched publisher keeps
\* it, unless the node has been shut down (then publish does nothing).  An
\* entry of out records the topic and the message, and for the record the
\* function that published it (by) and the inbound message whose callback
\* published it (cause, NoMsg outside a callback).
Publish(topic, msg, by, cause) ==
    IF ok
    THEN /\ out' = Append(out, [topic |-> topic, msg |-> msg, by |-> by,
                                cause |-> cause])
         /\ retained' = IF Latch[topic] THEN [retained EXCEPT ![topic] = msg]
                        ELSE retained
    ELSE UNCHANGED <<out, retained>>

\* the lifecycle phase a position of main belongs to
Phase(at) ==
    CASE at \in {"flattrim", "takeoff", "settle", "hover"} -> "initialize"
      [] at \in {"run_subscribe", "run_loop", "nav_move", "run_stop",
                 "run_shutdown"} -> "ascent"
      [] at = "ready" -> "ready"
      [] at \in {"tracking", "spin", "cb_velocity", "cb_yaw", "cb_alt",
                 "cb_move"} -> "tracking"
      [] at = "done" -> "done"

\* the main thread runs unless the handler is running on it
MainRuns == ~(sigThread = "main" /\ hpc \in {"sleep", "landed"})

handlerVars == <<hpc, sigThread, ok, sigAt>>
subVars == <<navSub, navQueue, imgSub, imgQueue>>
envVars == <<nNav, nImg>>

(***************************************************************************)
(* autonomy::initialize                                                    *)
(***************************************************************************)
\* system("rosservice call /ardrone/flattrim"): a separate process makes the
\* call, whatever the state of this node
FlatTrim ==
    /\ pc = "flattrim" /\ MainRuns
    /\ out' = Append(out, [topic |-> "/ardrone/flattrim", msg |-> empty_msg,
                           by |-> "initialize", cause |-> NoMsg])
    /\ pc' = "takeoff"
    /\ UNCHANGED <<handlerVars, subVars, envVars, retained, pid, now,
                   current_altitude, image, x_velocity, yaw_speed, z_velocity,
                   nCb, last_call, calls, main_pid>>

\* takeoff_pub.publish(empty_msg)
Takeoff ==
    /\ pc = "takeoff" /\ MainRuns
    /\ Publish("/ardrone/takeoff", empty_msg, "initialize", NoMsg)
    /\ pc' = "settle"
    /\ UNCHANGED <<handlerVars, subVars, envVars, pid, now,
                   current_altitude, image, x_velocity, yaw_speed, z_velocity,
                   nCb, last_call, calls, main_pid>>

\* usleep(3*1000*1000)
Settle ==
    /\ pc = "settle" /\ MainRuns
    /\ pc' = "hover"
    /\ UNCHANGED <<handlerVars, subVars, envVars, out, retained, pid, now,
                   current_altitude, image, x_velocity, yaw_speed, z_velocity,
                   nCb, last_call, calls, main_pid>>

\* move_drone(move_drone_pub, 0, 0, 0), then the increase_altitude object
\* initialize sending the climb command of the ascent instead of the hover
HoverCommandClimb == move_drone(R(0), Frac(3, 5), R(0))

\* the command initialize sends after the settle delay
HoverCommand == move_drone(R(0), R(0), R(0))

Hover ==
    /\ pc = "hover" /\ MainRuns
    /\ Publish("cmd_vel", HoverCommand, "initialize", NoMsg)
    /\ current_altitude' = 0
    /\ pc' = "run_subscribe"
    /\ UNCHANGED <<handlerVars, subVars, envVars, pid, now,
                   image, x_velocity, yaw_speed, z_velocity, nCb, last_call, calls, main_pid>>

(***************************************************************************)
(* increase_altitude                                                       *)
(***************************************************************************)
\* run: nh.subscribe("/ardrone/navdata", 1, ...); after shutdown no
\* subscription is made
RunSubscribe ==
    /\ pc = "run_subscribe" /\ MainRuns
    /\ navSub' = ok
    /\ pc' = "run_loop"
    /\ UNCHANGED <<handlerVars, navQueue, imgSub, imgQueue, envVars, out, retained,
                   pid, now, current_altitude, image, x_velocity, yaw_speed,
                   z_velocity, nCb, last_call, calls, main_pid>>

\* what callback does with the altitude of the message: current_altitude
NavAltitude(altd) == altd

\* the loop test with the comparison turned round
RunLoopTestInverted(cur, desired) == cur > desired

\* the loop test with <= in place of <
RunLoopTestOrEqual(cur, desired) == cur <= desired

\* run: while (current_altitude < desired_altitude)
RunLoopTest(cur, desired) == cur < desired

\* run: an iteration of the loop whose ros::spinOnce() finds a message:
\* callback starts, current_altitude = msg->altd.  (An iteration that finds no
\* message, or runs after shutdown, changes nothing.)
RunSpinOnce ==
    /\ pc = "run_loop" /\ MainRuns
    /\ RunLoopTest(current_altitude, takeoff_altitude)
    /\ ok /\ navSub /\ navQueue # <<>>
    /\ current_altitude' = NavAltitude(Head(navQueue))
    /\ navQueue' = Tail(navQueue)
    /\ pc' = "nav_move"
    /\ UNCHANGED <<handlerVars, navSub, imgSub, imgQueue, envVars, out, retained,
                   pid, now, image, x_velocity, yaw_speed, z_velocity, nCb,
                   last_call, calls, main_pid>>

\* the command callback sends after recording the altitude
NavCommand(cur, desired) == move_drone(R(0), Frac(3, 5), R(0))

\* callback: move_drone(move_drone_pub, 0, 0.6, 0)
NavCallbackMove ==
    /\ pc = "nav_move" /\ MainRuns
    /\ Publish("cmd_vel", NavCommand(current_altitude, takeoff_altitude),
               "increase_altitude::callback", [altd |-> current_altitude])
    /\ pc' = "run_loop"
    /\ UNCHANGED <<handlerVars, subVars, envVars, pid, now,
                   current_altitude, image, x_velocity, yaw_speed, z_velocity,
                   nCb, last_call, calls, main_pid>>

\* run: the loop ends
RunLoopExit ==
    /\ pc = "run_loop" /\ MainRuns
    /\ ~RunLoopTest(current_altitude, takeoff_altitude)
    /\ pc' = "run_stop"
    /\ UNCHANGED <<handlerVars, subVars, envVars, out, retained, pid, now,
                   current_altitude, image, x_velocity, yaw_speed, z_velocity,
                   nCb, last_call, calls, main_pid>>

\* run sending the climb command once more instead of the stop
StopCommandClimb == move_drone(R(0), Frac(3, 5), R(0))

\* the command run sends when the loop has ended
StopCommand == move_drone(R(0), R(0), R(0))

\* run: move_drone(move_drone_pub, 0, 0, 0)
RunStop ==
    /\ pc = "run_stop" /\ MainRuns
    /\ Publish("cmd_vel", StopCommand, "increase_altitude::run", NoMsg)
    /\ pc' = "run_shutdown"
    /\ UNCHANGED <<handlerVars, subVars, envVars, pid, now,
                   current_altitude, image, x_velocity, yaw_speed, z_velocity,
                   nCb, last_call, calls, main_pid>>

\* run: navdata_altitude.shutdown(); return, and initialize returns
RunUnsubscribe ==
    /\ pc = "run_shutdown" /\ MainRuns
    /\ navSub' = FALSE
    /\ navQueue' = <<>>
    /\ pc' = "ready"
    /\ UNCHANGED <<handlerVars, imgSub, imgQueue, envVars, out, retained, pid, now,
                   current_altitude, image, x_velocity, yaw_speed, z_velocity,
                   nCb, last_call, calls, main_pid>>

(***************************************************************************)
(* autonomy::ready, autonomy::tracking, autonomy::callback                 *)
(***************************************************************************)
\* ready: ready_pub.publish(ready_sig)
Ready ==
    /\ pc = "ready" /\ MainRuns
    /\ Publish("ready", ready_sig, "ready", NoMsg)
    /\ pc' = "tracking"
    /\ UNCHANGED <<handlerVars, subVars, envVars, pid, now,
                   current_altitude, image, x_velocity, yaw_speed, z_velocity,
                   nCb, last_call, calls, main_pid>>

\* tracking: n.subscribe("image_data", 100, ...)
TrackingSubscribe ==
    /\ pc = "tracking" /\ MainRuns
    /\ imgSub' = ok
    /\ pc' = "spin"
    /\ UNCHANGED <<handlerVars, navSub, navQueue, imgQueue, envVars, out, retained,
                   pid, now, current_altitude, image, x_velocity, yaw_speed,
                   z_velocity, nCb, last_call, calls, main_pid>>

\* ros::spin() hands the next pending ErrorSignal to callback
SpinDispatch ==
    /\ pc = "spin" /\ MainRuns
    /\ ok /\ imgSub /\ imgQueue # <<>>
    /\ image' = Head(imgQueue)
    /\ imgQueue' = Tail(imgQueue)
    /\ nCb' = nCb + 1
    /\ pc' = "cb_velocity"
    /\ UNCHANGED <<handlerVars, navSub, navQueue, imgSub, envVars, out, retained,
                   pid, now, current_altitude, x_velocity, yaw_speed, z_velocity,
                   last_call, calls, main_pid>>

\* a spin that returns when no message is waiting, as ros::spinOnce() does
SpinEndsWhenIdle == ~ok \/ imgQueue = <<>>

\* ros::spin() serves callbacks until the node is shut down
SpinEnds == ~ok

\* ros::spin() returns once the node is shut down; main returns 0
SpinReturn ==
    /\ pc = "spin" /\ MainRuns
    /\ SpinEnds
    /\ pc' = "done"
    /\ UNCHANGED <<handlerVars, subVars, envVars, out, retained, pid, now,
                   current_altitude, image, x_velocity, yaw_speed, z_velocity,
                   nCb, last_call, calls, main_pid>>

\* the forward velocity without the negation
ForwardVelocityNotNegated(output) == output

\* callback: the forward velocity is the negated controller output
ForwardVelocity(output) == RNeg(output)

\* callback: x_velocity = -velocity_PI.compute_output(image->distance)
CallbackVelocity ==
    /\ pc = "cb_velocity" /\ MainRuns
    /\ \E t \in ClockReadings(now) :
          /\ now' = t
          /\ pid' = MemberAfterCall("velocity_PI", compute_output(pid["velocity_PI"], image.distance, R(t)))
          /\ main_pid' = MainAfterCall("velocity_PI", compute_output(pid["velocity_PI"], image.distance, R(t)))
          /\ last_call' = CallRecord("velocity_PI", image.distance, R(t))
          /\ calls' = Append(calls, last_call')
    /\ x_velocity' = ForwardVelocity(pid'["velocity_PI"].prev_output)
    /\ pc' = "cb_yaw"
    /\ UNCHANGED <<handlerVars, subVars, envVars, out, retained,
                   current_altitude, image, yaw_speed, z_velocity, nCb>>

\* callback: yaw_speed = yaw_PI.compute_output(image->yaw)
CallbackYaw ==
    /\ pc = "cb_yaw" /\ MainRuns
    /\ \E t \in ClockReadings(now) :
          /\ now' = t
          /\ pid' = MemberAfterCall("yaw_PI", compute_output(pid["yaw_PI"], image.yaw, R(t)))
          /\ main_pid' = MainAfterCall("yaw_PI", compute_output(pid["yaw_PI"], image.yaw, R(t)))
          /\ last_call' = CallRecord("yaw_PI", image.yaw, R(t))
          /\ calls' = Append(calls, last_call')
    /\ yaw_speed' = pid'["yaw_PI"].prev_output
    /\ pc' = "cb_alt"
    /\ UNCHANGED <<handlerVars, subVars, envVars, out, retained,
                   current_altitude, image, x_velocity, z_velocity, nCb>>

\* callback: z_velocity = alt_PI.compute_output(image->height)
CallbackAltitude ==
    /\ pc = "cb_alt" /\ MainRuns
    /\ \E t \in ClockReadings(now) :
          /\ now' = t
          /\ pid' = MemberAfterCall("alt_PI", compute_output(pid["alt_PI"], image.height, R(t)))
          /\ main_pid' = MainAfterCall("alt_PI", compute_output(pid["alt_PI"], image.height, R(t)))
          /\ last_call' = CallRecord("alt_PI", image.height, R(t))
          /\ calls' = Append(calls, last_call')
    /\ z_velocity' = pid'["alt_PI"].prev_output
    /\ pc' = "cb_move"
    /\ UNCHANGED <<handlerVars, subVars, envVars, out, retained,
                   current_altitude, image, x_velocity, yaw_speed, nCb>>

\* callback: move_drone(move_drone_pub, x_velocity, z_velocity, yaw_speed)
CallbackMove ==
    /\ pc = "cb_move" /\ MainRuns
    /\ Publish("cmd_vel", move_drone(x_velocity, z_velocity, yaw_speed),
               "autonomy::callback", image)
    /\ pc' = "spin"
    /\ UNCHANGED <<handlerVars, subVars, envVars, pid, now,
                   current_altitude, image, x_velocity, yaw_speed, z_velocity,
                   nCb, last_call, calls, main_pid>>

(***************************************************************************)
(* sigint_handler                                                          *)
(***************************************************************************)
\* SIGINT arrives while main runs.  The node has several threads (roscpp's own
\* besides main) and none blocks SIGINT, so the handler runs either on the
\* main thread, which it suspends, or on another thread beside it.  The handler
\* advertises /ardrone/land and starts usleep(2*1000*1000).
Sigint ==
    /\ hpc = "idle"
    /\ pc # "done"
    /\ \E th \in {"main", "other"} : sigThread' = th
    /\ sigAt' = Phase(pc)
    /\ hpc' = "sleep"
    /\ UNCHANGED <<ok, mainVars, subVars, envVars, out, retained>>

\* land.publish(empty_msg)
HandlerLand ==
    /\ hpc = "sleep"
    /\ Publish("/ardrone/land", empty_msg, "sigint_handler", NoMsg)
    /\ hpc' = "landed"
    /\ UNCHANGED <<sigThread, sigAt, ok, mainVars, subVars, envVars>>

\* ros::shutdown(): ros::ok() turns false, every subscription and publisher
\* of the node is dropped and the callback queue is cleared; the handler returns
HandlerShutdown ==
    /\ hpc = "landed"
    /\ ok' = FALSE
    /\ navSub' = FALSE
    /\ navQueue' = <<>>
    /\ imgSub' = FALSE
    /\ imgQueue' = <<>>
    /\ retained' = [t \in Topics |-> NoMsg]
    /\ hpc' = "returned"
    /\ UNCHANGED <<sigThread, sigAt, mainVars, envVars, out>>

(***************************************************************************)
(* Environment: the drone's telemetry and the vision node                  *)
(***************************************************************************)
\* a Navdata message reaches the node, which happens while it is subscribed;
\* the subscription's queue holds one message, a newer one replaces it
NavdataArrives ==
    /\ navSub /\ nNav < MaxNavdata
    /\ \E altd \in Altitudes : navQueue' = <<altd>>
    /\ nNav' = nNav + 1
    /\ UNCHANGED <<handlerVars, mainVars, navSub, imgSub, imgQueue, nImg, out, retained>>

\* an ErrorSignal arrives on image_data
ImageArrives ==
    /\ imgSub /\ nImg < MaxImages /\ Len(imgQueue) < MaxPending
    /\ \E m \in ImageMsgs : imgQueue' = Append(imgQueue, m)
    /\ nImg' = nImg + 1
    /\ UNCHANGED <<handlerVars, mainVars, navSub, navQueue, imgSub, nNav, out, retained>>

(***************************************************************************)
(* Specifications                                                          *)
(***************************************************************************)
\* a step of main's control flow
MainStep ==
    \/ FlatTrim \/ Takeoff \/ Settle \/ Hover
    \/ RunSubscribe \/ RunSpinOnce \/ NavCallbackMove \/ RunLoopExit
    \/ RunStop \/ RunUnsubscribe
    \/ Ready \/ TrackingSubscribe \/ SpinDispatch \/ SpinReturn
    \/ CallbackVelocity \/ CallbackYaw \/ CallbackAltitude \/ CallbackMove

Next ==
    \/ FlatTrim \/ Takeoff \/ Settle \/ Hover
    \/ RunSubscribe \/ RunSpinOnce \/ NavCallbackMove \/ RunLoopExit
    \/ RunStop \/ RunUnsubscribe
    \/ Ready \/ TrackingSubscribe \/ SpinDispatch \/ SpinReturn
    \/ CallbackVelocity \/ CallbackYaw \/ CallbackAltitude \/ CallbackMove
    \/ Sigint \/ HandlerLand \/ HandlerShutdown
    \/ NavdataArrives \/ ImageArrives

Spec == Init /\ [][Next]_vars

(***************************************************************************)
(* A controller on its own: one of the three controllers main constructs,  *)
(* driven through a series of compute_output calls, as autonomy::callback  *)
(* drives each of them once per ErrorSignal.                               *)
(***************************************************************************)
\* errors SP - PV of the process values handed to the controller
PidErrors == {0, 50}

\* clock values ros::Time::now() may return during the calls
PidTimestamps == {2, 3, 4, 5}

\* a reading after the reading t: the same value or the next one
PidClockReadings(t) == {u \in PidTimestamps : t <= u /\ u <= t + 1}

\* one compute_output call on the controller the series is about
PidCall ==
    /\ Len(calls) < MaxCalls
    /\ \E c \in {d \in Controllers : calls = <<>> \/ calls[1].controller = d},
          e \in PidErrors, t \in PidClockReadings(now) :
          LET PV == RSub(pid[c].SP, R(e))
          IN  /\ now' = t
              /\ pid' = MemberAfterCall(c, compute_output(pid[c], PV, R(t)))
              /\ main_pid' = MainAfterCall(c, compute_output(pid[c], PV, R(t)))
              /\ last_call' = CallRecord(c, PV, R(t))
              /\ calls' = Append(calls, last_call')
    /\ UNCHANGED <<handlerVars, subVars, envVars, out, retained, pc,
                   current_altitude, image, x_velocity, yaw_speed, z_velocity,
                   nCb>>

PidSpec == Init /\ [][PidCall]_vars

(***************************************************************************)
(* Views of the outbound events                                            *)
(***************************************************************************)
Indices(topic) == {i \in DOMAIN out : out[i].topic = topic}
IndicesBy(by) == {i \in DOMAIN out : out[i].by = by}
LandPublished == Indices("/ardrone/land") # {}
ReadyPublished == Indices("ready") # {}
InRange(p, v) == RLe(p.outMin, v) /\ RLe(v, p.outMax)
\* a velocity command as the receiver sees it
Twist(lx, ly, lz, ax, ay, az) ==
    [ linear |-> [x |-> lx, y |-> ly, z |-> lz],
      angular |-> [x |-> ax, y |-> ay, z |-> az] ]

(***************************************************************************)
(* C1  Preemption during tracking: when SIGINT arrives while tracking()    *)
(* runs, exactly one land command is published on /ardrone/land (one once  *)
(* the handler has passed land.publish, never more), and no velocity       *)
(* command is published on cmd_vel after it.                               *)
(***************************************************************************)
C1_PreemptionLandsOnceNoVelocityAfter ==
    sigAt = "tracking" =>
        /\ Cardinality(Indices("/ardrone/land")) <= 1
        /\ hpc \in {"landed", "returned"} => Cardinality(Indices("/ardrone/land")) = 1
        /\ \A i \in Indices("/ardrone/land") :
              \A j \in Indices("cmd_vel") : j < i

(***************************************************************************)
(* C2  Failsafe from any phase: once SIGINT has arrived, in whatever phase,*)
(* and the handler has run (grace period, land, shutdown), the land        *)
(* command has been published and main's control flow stops: main has      *)
(* returned or still has a step that takes it on, it is never left running *)
(* with no way forward.                                                    *)
(***************************************************************************)
C2_FailsafeReachesLanding ==
    (sigAt # "none" /\ hpc = "returned") =>
        /\ LandPublished
        /\ pc = "done" \/ ENABLED MainStep

(***************************************************************************)
(* C3  Output bounds: every value compute_output returns lies in           *)
(* [outMin, outMax] of its controller.                                     *)
(***************************************************************************)
C3_OutputWithinBounds ==
    last_call # NoCall =>
        InRange(pid[last_call.controller], last_call.output)

(***************************************************************************)
(* C4  Slew limit: the value compute_output returns differs from the value *)
(* the previous call on that controller returned (0 before the first call) *)
(* by at most output_slew_rate.                                            *)
(***************************************************************************)
C4_SlewLimit ==
    last_call # NoCall =>
        LET p    == pid[last_call.controller]
            diff == RSub(last_call.output, last_call.prev_output)
        IN  /\ RLe(diff, p.output_slew_rate)
            /\ RLe(RNeg(p.output_slew_rate), diff)

(***************************************************************************)
(* C5  One command per measurement: every ErrorSignal whose callback has   *)
(* completed produced exactly one VelocityCommand on cmd_vel (none is      *)
(* produced without one, and none is lost while the node is up); the       *)
(* command has lateral velocity 0, forward velocity the negated output of  *)
(* velocity_PI applied to distance, yaw rate the output of yaw_PI applied  *)
(* to the horizontal offset and vertical velocity the output of alt_PI     *)
(* applied to the vertical offset.                                         *)
(***************************************************************************)
TrackIdx == IndicesBy("autonomy::callback")
CallbackPcs == {"cb_velocity", "cb_yaw", "cb_alt", "cb_move"}
CallbacksCompleted == nCb - (IF pc \in CallbackPcs THEN 1 ELSE 0)
LastIdx(S) == CHOOSE i \in S : \A j \in S : j <= i
FirstIdx(S) == CHOOSE i \in S : \A j \in S : i <= j

C5_OneCommandPerErrorSignal ==
    LET track == TrackIdx
        ready == Indices("ready")
    IN  /\ Cardinality(track) <= CallbacksCompleted
        /\ ok => Cardinality(track) = CallbacksCompleted
        /\ \A i \in Indices("cmd_vel") :
              (\E r \in ready : r < i) => i \in track
        /\ \A i \in track :
              /\ out[i].topic = "cmd_vel"
              /\ out[i].cause \in ImageMsgs
              /\ out[i].msg.linear.y = R(0)
              /\ out[i].msg.angular.x = R(0)
              /\ out[i].msg.angular.y = R(0)
        /\ (pc = "spin" /\ nCb > 0 /\ Cardinality(track) = nCb) =>
              LET e == out[LastIdx(track)]
              IN  /\ e.cause = image
                  /\ pid["velocity_PI"].prev_error[0] = RSub(R(250), image.distance)
                  /\ pid["yaw_PI"].prev_error[0] = RSub(R(0), image.yaw)
                  /\ pid["alt_PI"].prev_error[0] = RSub(R(0), image.height)
                  /\ e.msg.linear.x = RNeg(pid["velocity_PI"].prev_output)
                  /\ e.msg.angular.z = pid["yaw_PI"].prev_output
                  /\ e.msg.linear.z = pid["alt_PI"].prev_output

C5_Witness ==
    /\ pc = "spin" /\ ok /\ nCb = 2 /\ Cardinality(TrackIdx) = 2
    /\ out[LastIdx(TrackIdx)].msg.linear.z # out[LastIdx(TrackIdx)].msg.angular.z

(***************************************************************************)
(* C6  Tracking sign convention.  As claimed: an ErrorSignal with          *)
(* distance = 300, horizontal_offset = 0, vertical_offset = 0 yields a     *)
(* forward velocity in the emitted command that is negative and within     *)
(* [-0.3, 0.3].                                                            *)
(***************************************************************************)
Msg300 == [distance |-> R(300), yaw |-> R(0), height |-> R(0)]

C6_ForwardVelocityNegative ==
    \A i \in TrackIdx :
        out[i].cause = Msg300 =>
            /\ RLt(out[i].msg.linear.x, R(0))
            /\ RLe(Frac(-3, 10), out[i].msg.linear.x)
            /\ RLe(out[i].msg.linear.x, Frac(3, 10))

(***************************************************************************)
(* C6 as amended: when that ErrorSignal is the first one processed, the    *)
(* forward velocity in the emitted command is not negative: it is positive *)
(* (at most the slew rate 0.2) when the error -50 lies outside the         *)
(* deadband (offset < 50) and 0 when inside; it lies within [-0.3, 0.3].   *)
(***************************************************************************)
C6_ForwardVelocityPositive ==
    LET track == TrackIdx
        first == out[FirstIdx(track)]
        x     == first.msg.linear.x
    IN  (track # {} /\ first.cause = Msg300) =>
            /\ IF RLt(pid["velocity_PI"].offset, R(50))
               THEN RGt(x, R(0)) ELSE x = R(0)
            /\ RLe(x, Frac(1, 5))
            /\ RLe(Frac(-3, 10), x) /\ RLe(x, Frac(3, 10))

C6_Witness ==
    /\ TrackIdx # {} /\ out[FirstIdx(TrackIdx)].cause = Msg300
    /\ RLt(pid["velocity_PI"].offset, R(50))
    /\ RGt(out[FirstIdx(TrackIdx)].msg.linear.x, R(0))

(***************************************************************************)
(* C7  Ascent command sequence: the velocity commands of the altitude ramp *)
(* are climb commands (0, 0.6, 0) followed by one zero-velocity stop       *)
(* command: callback sends only climb commands, run sends only the stop,   *)
(* at most once and exactly once when run has got past it with the node    *)
(* up; no climb command follows the stop, and once run has returned the    *)
(* telemetry subscription is closed.                                       *)
(***************************************************************************)
ClimbIdx == IndicesBy("increase_altitude::callback")
StopIdx == IndicesBy("increase_altitude::run")

C7_AscentClimbsThenStopsOnce ==
    LET climb == ClimbIdx
        stop  == StopIdx
    IN  /\ \A i \in climb :
              /\ out[i].topic = "cmd_vel"
              /\ out[i].msg = Twist(R(0), R(0), Frac(3, 5), R(0), R(0), R(0))
        /\ \A i \in stop :
              /\ out[i].topic = "cmd_vel"
              /\ out[i].msg = Twist(R(0), R(0), R(0), R(0), R(0), R(0))
        /\ Cardinality(stop) <= 1
        /\ \A i \in stop : \A j \in climb : j < i
        /\ (ok /\ (pc = "run_shutdown" \/ Phase(pc) \in {"ready", "tracking"})) =>
              Cardinality(stop) = 1
        /\ Phase(pc) \in {"ready", "tracking", "done"} => (~navSub /\ navQueue = <<>>)

C7_Witness ==
    /\ pc = "spin" /\ ok /\ nNav = MaxNavdata
    /\ Cardinality(ClimbIdx) >= 2 /\ Cardinality(StopIdx) = 1

(***************************************************************************)
(* C8  Climb only below target: a climb command is sent in response to a   *)
(* telemetry update only when the altitude recorded from that update is    *)
(* strictly below the target.                                              *)
(***************************************************************************)
C8_ClimbOnlyBelowTarget ==
    \A i \in ClimbIdx : out[i].cause.altd < takeoff_altitude

(***************************************************************************)
(* C9  Lifecycle ordering: the outbound events occur in the order          *)
(* flat-trim, takeoff, (settle delay,) hover and ramp commands, ready,     *)
(* tracking commands; ready is published at most once, exactly once in a   *)
(* run without cancellation that reaches tracking, and only after a        *)
(* telemetry altitude >= 1300 was recorded; no command of the tracking     *)
(* callback precedes it.                                                   *)
(***************************************************************************)
Rank(e) ==
    CASE e.topic = "/ardrone/flattrim" -> 1
      [] e.topic = "/ardrone/takeoff" -> 2
      [] e.topic = "cmd_vel" /\ e.by = "initialize" -> 3
      [] e.topic = "cmd_vel" /\ e.by = "increase_altitude::callback" -> 4
      [] e.topic = "cmd_vel" /\ e.by = "increase_altitude::run" -> 5
      [] e.topic = "ready" -> 6
      [] e.topic = "cmd_vel" /\ e.by = "autonomy::callback" -> 7
      [] OTHER -> 0

C9_LifecycleOrdering ==
    /\ LET seq == SelectSeq(out, LAMBDA e : e.topic # "/ardrone/land")
       IN  \A i \in DOMAIN seq :
              LET r == Rank(seq[i])
              IN  r > 0 /\ (i < Len(seq) => r <= Rank(seq[i + 1]))
    /\ pc \in {"flattrim", "takeoff", "settle"} => Indices("cmd_vel") = {}
    /\ Cardinality(Indices("ready")) <= 1
    /\ ReadyPublished => current_altitude >= takeoff_altitude
    /\ (sigAt = "none" /\ Phase(pc) = "tracking") =>
          /\ Cardinality(Indices("/ardrone/flattrim")) = 1
          /\ Cardinality(Indices("/ardrone/takeoff")) = 1
          /\ Cardinality(Indices("ready")) = 1

C9_Witness ==
    /\ sigAt = "none" /\ pc = "spin" /\ TrackIdx # {}
    /\ ReadyPublished /\ ClimbIdx # {}

(***************************************************************************)
(* C10  Ready signal is latched: while the node is up, a receiver that     *)
(* subscribes to the ready channel after ready() has published still       *)
(* observes the ready signal.                                              *)
(***************************************************************************)
\* what a receiver subscribing to the topic now is sent on connecting
LateJoinerObserves(topic) == retained[topic]

C10_ReadyLatched ==
    (ReadyPublished /\ ok) => LateJoinerObserves("ready") = ready_sig

(***************************************************************************)
(* Views of the compute_output calls                                       *)
(***************************************************************************)
\* the calls made on controller c, in order
CallsOn(c) == SelectSeq(calls, LAMBDA r : r.controller = c)

\* the i-th call on c and the three before it all had PV = SP (error 0)
FourAtSetpoint(c, i) ==
    i >= 4 /\ \A j \in (i - 3)..i : CallsOn(c)[j].error = R(0)

(***************************************************************************)
(* C11  Deadband convergence: for a controller with offset >= 0, whatever  *)
(* the calls before, once four calls in a row have had the process value   *)
(* equal to the setpoint, the fourth returns exactly 0, and so does every   *)
(* later call of the run: 0 is reached after at most 4 calls and kept.     *)
(***************************************************************************)
C11_DeadbandConvergence ==
    \A c \in Controllers :
        RLe(R(0), pid[c].offset) =>
            \A i \in DOMAIN CallsOn(c) :
                FourAtSetpoint(c, i) => CallsOn(c)[i].output = R(0)

\* a run of four calls at the setpoint that starts from a saturated output
\* and needs three calls to bring it to 0
C11_Witness ==
    \E c \in Controllers :
        \E i \in DOMAIN CallsOn(c) :
            /\ FourAtSetpoint(c, i)
            /\ i >= 5
            /\ CallsOn(c)[i - 4].output = pid[c].outMax
            /\ CallsOn(c)[i - 2].output # R(0)
            /\ CallsOn(c)[i - 1].output = R(0)
            /\ CallsOn(c)[i].output = R(0)

(***************************************************************************)
(* C12  Zero-dt rejection: a compute_output call made at the timestamp of  *)
(* the previous call (dt = 0) is rejected and does not divide by dt, so    *)
(* that its derivative term is finite, and no velocity command published   *)
(* on cmd_vel has a component that is not finite.                          *)
(***************************************************************************)
FiniteTwist(msg) ==
    /\ IsFinite(msg.linear.x) /\ IsFinite(msg.linear.y) /\ IsFinite(msg.linear.z)
    /\ IsFinite(msg.angular.x) /\ IsFinite(msg.angular.y) /\ IsFinite(msg.angular.z)

C12_ZeroDtRejected ==
    /\ \A i \in DOMAIN calls :
          calls[i].dt = R(0) => IsFinite(calls[i].derivative)
    /\ \A i \in Indices("cmd_vel") : FiniteTwist(out[i].msg)

(***************************************************************************)
(* C13  Derivative estimator: on a freshly constructed controller, for the *)
(* first four calls, with errors e0, e1, e2, e3 and the same positive dt   *)
(* between the calls, the derivative term of the fourth call is            *)
(* (e3 + 3*e2 - 3*e1 - e0) / 6 / dt.                                       *)
(***************************************************************************)
SmoothedDerivative(e0, e1, e2, e3, dt) ==
    RDiv(RDiv(RSub(RSub(RAdd(e3, RMul(R(3), e2)), RMul(R(3), e1)), e0), R(6)), dt)

C13_DerivativeEstimator ==
    \A c \in Controllers :
        LET s == CallsOn(c)
        IN  (/\ Len(s) >= 4
             /\ s[2].dt = s[3].dt /\ s[3].dt = s[4].dt
             /\ RGt(s[4].dt, R(0)))
                => s[4].derivative =
                      SmoothedDerivative(s[1].error, s[2].error, s[3].error,
                                         s[4].error, s[4].dt)

(***************************************************************************)
(* C14  Error history shift: after every call, prev_error of the controller*)
(* holds the errors of its three most recent calls in order, slot 0 the    *)
(* newest, slot 1 the one before, slot 2 the one before that, and 0 in the *)
(* slots of calls not made yet.                                            *)
(***************************************************************************)
\* the error of the call made k calls before the latest call on c, 0 if none
ErrorBack(c, k) ==
    LET s == CallsOn(c)
    IN  IF Len(s) - k >= 1 THEN s[Len(s) - k].error ELSE R(0)

C14_ErrorHistoryShift ==
    \A c \in Controllers :
        \A k \in 0..2 : pid[c].prev_error[k] = ErrorBack(c, k)

(***************************************************************************)
(* C15  First-call dt: the dt of the first call on a controller is the     *)
(* time elapsed since the controller was constructed (main constructs the  *)
(* three controllers when the node starts), not the value of the clock.    *)
(***************************************************************************)
C15_FirstCallDt ==
    \A c \in Controllers :
        CallsOn(c) # <<>> =>
            CallsOn(c)[1].dt = RSub(CallsOn(c)[1].time, R(StartTime))

(***************************************************************************)
(* C16  Integral accumulation: every call adds error * dt to the integral  *)
(* of its controller, whether the error is inside the deadband or not and  *)
(* whether the output is slew-limited or capped or not; the integral is    *)
(* never reset or bounded, so after n calls it is the sum of error_i * dt_i*)
(* over the n calls.                                                        *)
(***************************************************************************)
\* the sum of error * dt over the first n calls of s
RECURSIVE IntegralSumTo(_, _)
IntegralSumTo(s, n) ==
    IF n = 0 THEN R(0)
    ELSE RAdd(IntegralSumTo(s, n - 1), RMul(s[n].error, s[n].dt))

IntegralSum(s) == IntegralSumTo(s, Len(s))

C16_IntegralAccumulates ==
    \A c \in Controllers :
        LET s == CallsOn(c)
        IN  pid[c].integral = IntegralSum(s)

\* the call was made with a non-zero error inside the deadband
InsideDeadband(r) ==
    /\ r.error # R(0) /\ r.dt # R(0)
    /\ RLe(r.error, pid[r.controller].offset)
    /\ RLe(RNeg(pid[r.controller].offset), r.error)

\* a controller has made four calls, calls inside the deadband among them,
\* and they have left their error * dt in the integral
C16_Witness ==
    \E c \in Controllers :
        LET s == CallsOn(c)
        IN  /\ Len(s) >= 4
            /\ \E i \in DOMAIN s : InsideDeadband(s[i]) /\ s[i].output = R(0)
            /\ \E j \in DOMAIN s : s[j].error = R(0)
            /\ pid[c].integral # R(0)

(***************************************************************************)
(* C17  Controller state isolation: a compute_output call on one of the    *)
(* three controllers of autonomy changes the state of that controller      *)
(* only, so the state of each controller is what its own calls, in order,  *)
(* make of the controller as constructed; and the controller objects of    *)
(* main, which the autonomy constructor copies, stay as constructed.       *)
(***************************************************************************)
\* a controller with the parameters of p, as the constructor leaves it
AsConstructed(p) ==
    PID_controller(p.SP, p.output_slew_rate, p.outMax, p.outMin,
                   p.kp, p.ki, p.kd, p.offset)

\* the state of controller c follows from the calls made on c alone: each
\* call started from what the call before it on c had left, and the fields
\* are as the latest call on c left them
OwnCallsOnly(c) ==
    LET s == CallsOn(c)
        n == Len(s)
    IN  /\ \A i \in 1..n :
              s[i].prev_output = IF i = 1 THEN R(0) ELSE s[i - 1].output
        /\ IF n = 0 THEN pid[c] = main_pid[c]
           ELSE /\ pid[c].prev_output = s[n].output
                /\ pid[c].time_stamp_prev = s[n].time
                /\ pid[c].prev_error[0] = s[n].error
                /\ pid[c].prev_error[1] = (IF n = 1 THEN R(0) ELSE s[n - 1].error)
                /\ pid[c].prev_error[2] = pid[c].prev_error[1]
                /\ pid[c].integral = s[n].integral

C17_ControllerStateIsolation ==
    \A c \in Controllers :
        /\ main_pid[c] = AsConstructed(pid[c])
        /\ OwnCallsOnly(c)

\* every controller has been called and the calls have changed its state
C17_Witness ==
    /\ \A c \in Controllers : CallsOn(c) # <<>> /\ pid[c] # main_pid[c]
    /\ \E c \in Controllers : Len(CallsOn(c)) >= 2 /\ pid[c].integral # R(0)

(***************************************************************************)
(* C18  Ascent termination: run() returns exactly when the target is <= 0  *)
(* or a telemetry update with altitude >= target has been delivered to its *)
(* callback: it has not left its loop before, and it leaves it at its next *)
(* test after.  As long as no such update has been delivered it stays in   *)
(* the loop, and no stop command and no ready signal has been published    *)
(* and tracking has not started.                                           *)
(***************************************************************************)
\* current_altitude is 0 until callback stores the altitude of an update,
\* and the loop makes no further spinOnce call once it is >= the target
TargetReached ==
    takeoff_altitude <= 0 \/ current_altitude >= takeoff_altitude

\* run() has left its loop
RunLoopLeft == Phase(pc) \in {"ready", "tracking", "done"}
                  \/ pc \in {"run_stop", "run_shutdown"}

C18_AscentTermination ==
    /\ RunLoopLeft => TargetReached
    /\ (pc = "run_loop" /\ MainRuns /\ TargetReached) =>
          (ENABLED RunLoopExit /\ ~ENABLED RunSpinOnce)
    /\ ~TargetReached =>
          /\ ~ENABLED RunLoopExit
          /\ StopIdx = {}
          /\ ~ReadyPublished
          /\ Phase(pc) \in {"initialize", "ascent"}
          /\ imgSub = FALSE /\ TrackIdx = {}

\* every update the drone sent was below the target and has been delivered:
\* run() is in its loop with nothing more to come
C18_Witness ==
    /\ pc = "run_loop" /\ ok /\ navSub
    /\ nNav = MaxNavdata /\ navQueue = <<>>
    /\ Cardinality(ClimbIdx) = MaxNavdata
    /\ ~TargetReached /\ current_altitude > 0

(***************************************************************************)
(* C19  Landing only by failsafe: a land command is published only by the  *)
(* SIGINT handler, hence only once SIGINT has arrived; initialize(),       *)
(* ready(), the ascent and the tracking callback publish none, and         *)
(* tracking does not end on its own: without SIGINT the node stays up and  *)
(* main does not return.                                                   *)
(***************************************************************************)
C19_LandingOnlyByFailsafe ==
    /\ \A i \in DOMAIN out :
          out[i].topic = "/ardrone/land" <=> out[i].by = "sigint_handler"
    /\ LandPublished => (sigAt # "none" /\ hpc \in {"landed", "returned"})
    /\ sigAt = "none" =>
          /\ retained["/ardrone/land"] = NoMsg
          /\ ok /\ pc # "done"
    /\ pc = "done" => (hpc = "returned" /\ LandPublished)

\* SIGINT arrived after tracking had sent commands; the handler landed the
\* drone and main returned
C19_Witness ==
    /\ sigAt = "tracking" /\ pc = "done"
    /\ Cardinality(TrackIdx) >= 2
    /\ Cardinality(Indices("/ardrone/land")) = 1

(***************************************************************************)
(* C20  Hover before ascent: the commands published on cmd_vel after the   *)
(* takeoff command and before the ready signal are, in order, one          *)
(* zero-velocity command (the hover of initialize), the climb commands of  *)
(* the ascent, and one zero-velocity command (the stop of the ascent): two *)
(* zero-velocity commands in all, and none between two climb commands.     *)
(***************************************************************************)
ZeroVelocity == Twist(R(0), R(0), R(0), R(0), R(0), R(0))
ClimbVelocity == Twist(R(0), R(0), Frac(3, 5), R(0), R(0), R(0))

\* the cmd_vel entries that precede the ready signal (all, if there is none)
BeforeReadyIdx ==
    LET ready == Indices("ready")
    IN  {i \in Indices("cmd_vel") : \A r \in ready : i < r}

ZeroIdx == {i \in BeforeReadyIdx : out[i].msg = ZeroVelocity}

C20_HoverBeforeAscent ==
    LET B == BeforeReadyIdx
        takeoff == Indices("/ardrone/takeoff")
        zeros == Cardinality(ZeroIdx)
    IN  /\ \A i \in B :
              /\ \E t \in takeoff : t < i
              /\ (\A j \in B : i <= j) => out[i].msg = ZeroVelocity
              /\ ((\E j \in B : j < i) /\ (\E k \in B : i < k)) =>
                    out[i].msg = ClimbVelocity
              /\ out[i].msg \in {ZeroVelocity, ClimbVelocity}
        /\ zeros <= 2
        /\ zeros = 2 => pc \notin {"run_loop", "nav_move", "run_stop"}
        /\ pc \in {"run_subscribe", "run_loop", "nav_move", "run_stop"} /\ ok =>
              zeros = 1
        /\ ReadyPublished =>
              /\ Cardinality(B) >= 3
              /\ zeros = 2
              /\ \A i \in B : (\A j \in B : j <= i) => out[i].msg = ZeroVelocity

\* ready has been published after an ascent of two climb commands
C20_Witness ==
    /\ ReadyPublished /\ pc = "tracking"
    /\ Cardinality(BeforeReadyIdx) = 4
    /\ Cardinality(ZeroIdx) = 2

=============================================================================
